---- MODULE Spec2Model ----
(***************************************************************************)
(* GitHub streak monitor: the fetch / validate / compute / notify pipeline *)
(* of src/src/monitor.py (main) and of src/main.py (run).                  *)
(*                                                                         *)
(* One behaviour of the model is one run of one of the two programs.  The  *)
(* remote services (stats source, generation service, primary and          *)
(* secondary webhook) answer nondeterministically on every request.        *)
(* Exceptions are those of class Exception; traceback.format_exception(e)  *)
(* is taken in its one-argument form (Python 3.10 and later).              *)
(***************************************************************************)
EXTENDS Integers, Sequences, FiniteSets, TLC

\* ------------------------------------------------------------------ bounds

\* How many times the UTC date may roll over during one run.
MaxTicks == 1

\* ------------------------------------------------------- program constants

\* monitor.py: "while attempts < 2" in fetch_with_retry / post_discord_with_retry.
FetchMaxAttempts == 2
PostMaxAttempts == 2
\* main.py: _request_with_retries(..., max_retries: int = 3, ...).
max_retries == 3
\* monitor.py: len(MESSAGES_MISSED), len(MESSAGES_ACTIVE).
NumMissedTemplates == 14
NumActiveTemplates == 10

\* ---------------------------------------------------------------- calendar
\* datetime.date as used by iso_to_date / date.fromisoformat and by the
\* subtraction (today - last_active).days.

IsLeap(y) == (y % 4 = 0 /\ y % 100 # 0) \/ y % 400 = 0

DaysInMonth(y, m) ==
    IF m = 2 THEN (IF IsLeap(y) THEN 29 ELSE 28)
    ELSE IF m \in {4, 6, 9, 11} THEN 30 ELSE 31

RECURSIVE DaysBeforeMonth(_, _)
DaysBeforeMonth(y, m) ==
    IF m <= 1 THEN 0 ELSE DaysBeforeMonth(y, m - 1) + DaysInMonth(y, m - 1)

DaysBeforeYear(y) ==
    LET p == y - 1 IN p * 365 + (p \div 4) - (p \div 100) + (p \div 400)

\* date.toordinal(): the proleptic Gregorian day number.
ToOrdinal(d) == DaysBeforeYear(d.y) + DaysBeforeMonth(d.y, d.m) + d.d

\* A date string: its three fields and whether it is written YYYY-MM-DD at all.
DateStr(y, m, d) == [wf |-> TRUE, y |-> y, m |-> m, d |-> d]
NoneStr == [wf |-> FALSE, y |-> 0, m |-> 0, d |-> 0]

\* date.fromisoformat(s) raises ValueError unless s names a calendar date.
IsIsoDate(s) ==
    /\ s.wf
    /\ s.y >= 1 /\ s.y <= 9999
    /\ s.m >= 1 /\ s.m <= 12
    /\ s.d >= 1 /\ s.d <= DaysInMonth(s.y, s.m)

\* date.fromisoformat(s) for a valid s; date.isoformat() is its inverse.
iso_to_date(s) == [y |-> s.y, m |-> s.m, d |-> s.d]
isoformat(d) == DateStr(d.y, d.m, d.d)

\* The day after d (the wall clock crossing midnight UTC).
NextDay(d) ==
    IF d.d < DaysInMonth(d.y, d.m) THEN [d EXCEPT !.d = d.d + 1]
    ELSE IF d.m < 12 THEN [y |-> d.y, m |-> d.m + 1, d |-> 1]
    ELSE [y |-> d.y + 1, m |-> 1, d |-> 1]

\* (today - last_active).days
DeltaDays(today, last_active) == ToOrdinal(today) - ToOrdinal(last_active)

Max(a, b) == IF a >= b THEN a ELSE b

\* ------------------------------------------------------ the stats payloads
\* A parsed JSON value of the stats source.  shape says what the value is;
\* obj is the record (the value itself, or the first element of the list).

TopKeys == {"totalContributions", "firstContribution", "longestStreak", "currentStreak"}
SubKeys == {"start", "end", "days"}

\* The values of currentStreak.days: a number, null, or text that is no number.
IntVal(n) == [kind |-> "int", v |-> n]
NullVal == [kind |-> "null", v |-> 0]
TextVal == [kind |-> "text", v |-> 0]

Streak(e, n) == [kind |-> "dict", keys |-> SubKeys, end |-> e, days |-> n]

GoodObj(e, n) ==
    [keys |-> TopKeys, extra |-> FALSE,
     cs |-> Streak(e, n),
     ls |-> Streak(DateStr(2023, 6, 30), IntVal(40))]

\* The dates the stats source reports as currentStreak.end.
EndStrs ==
    { DateStr(2023, 12, 27), DateStr(2023, 12, 31), DateStr(2024, 1, 1),
      DateStr(2023, 2, 28), DateStr(2024, 2, 29),
      DateStr(2023, 2, 29), DateStr(2024, 13, 1), NoneStr }

RefObj == GoodObj(DateStr(2023, 12, 27), IntVal(10))

GoodObjs ==
    { GoodObj(e, IntVal(10)) : e \in EndStrs }
      \cup { GoodObj(DateStr(2023, 12, 27), n) : n \in {NullVal, TextVal} }

DefectObjs ==
    { [RefObj EXCEPT !.keys = TopKeys \ {k}] : k \in TopKeys }
      \cup { [RefObj EXCEPT !.cs.keys = SubKeys \ {k}] : k \in SubKeys }
      \cup { [RefObj EXCEPT !.ls.keys = SubKeys \ {k}] : k \in SubKeys }
      \cup { [RefObj EXCEPT !.cs.kind = c] : c \in {"null", "string"} }
      \cup { [RefObj EXCEPT !.ls.kind = "string"] }
      \cup { [RefObj EXCEPT !.extra = TRUE] }

Objs == GoodObjs \cup DefectObjs

Json(shape, obj) == [json |-> TRUE, shape |-> shape, obj |-> obj]
\* A body that is not JSON at all (r.json() raises).
NotJson == [json |-> FALSE, shape |-> "none", obj |-> RefObj]

Bodies ==
    { Json(s, o) : s \in {"dict", "list_obj"}, o \in Objs }
      \cup { Json(s, RefObj) :
               s \in {"empty_list", "number", "string", "null",
                      "list_number", "list_string", "list_list"} }
      \cup { NotJson }

\* ------------------------------------------------------------ HTTP answers
\* One attempt either raises (timeout, connection error) or gets a response.

NetError == [net |-> TRUE, status |-> 0, body |-> NotJson]
Response(st, b) == [net |-> FALSE, status |-> st, body |-> b]

\* The stats source: 200 with any body, or 500.
StatsAnswers ==
    { NetError }
      \cup { Response(200, b) : b \in Bodies }
      \cup { Response(500, NotJson) }

\* A webhook: 204 (delivered, no content), 404, or no answer at all.
WebhookAnswers == { NetError, Response(204, NotJson), Response(404, NotJson) }

\* Answers of the generation service: the body's shape field tells whether the
\* text is there ("gen_text"), is only whitespace ("gen_blank"), or the
\* structure choices[0].message.content is missing ("gen_malformed").
GenBody(k) == [json |-> TRUE, shape |-> k, obj |-> RefObj]
GenAnswers ==
    { NetError }
      \cup { Response(200, GenBody(k)) : k \in {"gen_text", "gen_blank", "gen_malformed"} }
      \cup { Response(200, NotJson), Response(500, NotJson) }

NoResp == [net |-> FALSE, status |-> 0, body |-> NotJson]

\* -------------------------------------------------------------- exceptions
\* type/kind/key tell what was raised; att is the attempt of a retry loop that
\* raised it (0 outside the loops), so two attempts never share an exception.
Exc(type, kind, key, att) == [type |-> type, kind |-> kind, key |-> key, att |-> att]
NoExc == Exc("none", "none", "", 0)

\* ------------------------------------------------------------ the messages
Msg(src, cat, tmpl, empty) == [src |-> src, cat |-> cat, tmpl |-> tmpl, empty |-> empty]
NoMsg == Msg("none", "none", 0, TRUE)

\* ------------------------------------------------------------------- state
VARIABLES
    prog,             \* which program runs: "monitor" (monitor.py) or "main" (main.py)
    env,              \* the environment: webhook, secondary, always_notify, api_key
    clock, ticks,     \* the current UTC date, and how often it rolled over
    pc,               \* the position of the run
    attempts,         \* the attempts made by the retry loop that is running
    last_exc,         \* last_exc / last_err of the retry loop that is running
    resp, err,        \* what _request_with_retries returned
    raw,              \* the parsed body of the stats source
    stats,            \* the record the pipeline works on
    last_active_str, streak_len_days,
    today,            \* the date the days-missed computation used
    logged_today,     \* the date main() logs after the computation
    days_missed,
    content,          \* the notification text
    exc,              \* the exception that ended the pipeline
    exitCode,         \* -1 while the run is going
    loops,            \* per retry loop: the outcome of every attempt so far
    sleeps,           \* per retry loop: the backoff waits so far
    wrapperExit,      \* per retry loop: how the wrapper was left
    secondaryCalls,   \* calls of notify_secondary
    secondaryPosts,   \* POSTs to the secondary webhook, with their answers
    trace             \* the pipeline steps visited, in order

cfgVars == <<prog, env>>
clockVars == <<clock, ticks>>
loopVars == <<attempts, last_exc, resp, err>>
dataVars == <<raw, stats, last_active_str, streak_len_days, today, logged_today,
              days_missed, content>>
ghostVars == <<loops, sleeps, wrapperExit>>
escVars == <<secondaryCalls, secondaryPosts>>
ctrlVars == <<pc, exc, exitCode, trace>>
vars == <<cfgVars, clockVars, loopVars, dataVars, ghostVars, escVars, ctrlVars>>

Sites == {"fetch", "gen", "post"}
\* The run starts on the last day of a year.
ClockStarts == { [y |-> 2023, m |-> 12, d |-> 31] }
UnsetDate == [y |-> 1, m |-> 1, d |-> 1]

\* monitor.py reads DISCORD_WEBHOOK_URL, SECONDARY_ERROR_WEBHOOK and
\* ALWAYS_NOTIFY_ACTIVE; main.py reads DISCORD_WEBHOOK_URL and DEEPSEEK_API_KEY.
Envs(p) ==
    IF p = "monitor"
    THEN [webhook : BOOLEAN, secondary : BOOLEAN, always_notify : BOOLEAN, api_key : {FALSE}]
    ELSE [webhook : BOOLEAN, secondary : {FALSE}, always_notify : {FALSE}, api_key : BOOLEAN]

Init ==
    /\ prog \in {"monitor", "main"}
    /\ env \in Envs(prog)
    /\ clock \in ClockStarts
    /\ ticks = 0
    /\ pc = "start"
    /\ attempts = 0
    /\ last_exc = NoExc
    /\ resp = NoResp
    /\ err = NoExc
    /\ raw = NotJson
    /\ stats = NotJson
    /\ last_active_str = NoneStr
    /\ streak_len_days = 0
    /\ today = UnsetDate
    /\ logged_today = UnsetDate
    /\ days_missed = 0
    /\ content = NoMsg
    /\ exc = NoExc
    /\ exitCode = -1
    /\ loops = [s \in Sites |-> <<>>]
    /\ sleeps = [s \in Sites |-> 0]
    /\ wrapperExit = [s \in Sites |-> "none"]
    /\ secondaryCalls = 0
    /\ secondaryPosts = <<>>
    /\ trace = <<>>

\* The step s is being visited (retries of a step are one visit).
Visit(s) == IF trace # <<>> /\ trace[Len(trace)] = s THEN trace ELSE Append(trace, s)

\* One attempt of a retry loop, as the loop's record keeps it.
Attempt(a, ok, e) ==
    [net |-> a.net, status |-> a.status, shape |-> a.body.shape, ok |-> ok, exc |-> e]

\* The wall clock crosses midnight UTC.
Tick ==
    /\ pc # "done"
    /\ ticks < MaxTicks
    /\ clock' = NextDay(clock)
    /\ ticks' = ticks + 1
    /\ UNCHANGED <<cfgVars, loopVars, dataVars, ghostVars, escVars, ctrlVars>>

\* ------------------------------------------------ monitor.py: pure functions

\* ok = 200 <= r.status_code < 300
status_ok(st) == 200 <= st /\ st < 300

\* The first of the keys of seq, in the order of seq, that is not in present
\* ("" when none is missing).
RECURSIVE FirstMissing(_, _)
FirstMissing(seq, present) ==
    IF seq = <<>> THEN ""
    ELSE IF seq[1] \notin present THEN seq[1]
    ELSE FirstMissing(Tail(seq), present)

required_top == <<"totalContributions", "firstContribution", "longestStreak", "currentStreak">>
required_sub == <<"start", "end", "days">>

Ok(v) == [ok |-> TRUE, val |-> v, exc |-> NoExc]
Raise(v, e) == [ok |-> FALSE, val |-> v, exc |-> e]

\* The check of one streak object of normalize_stats: the exception it raises,
\* NoExc when it passes.
check_streak(name, thing) ==
    IF thing.kind # "dict" THEN Exc("ValueError", "not_object", name, 0)
    ELSE IF FirstMissing(required_sub, thing.keys) # ""
    THEN Exc("ValueError", "missing_key", name \o "." \o FirstMissing(required_sub, thing.keys), 0)
    ELSE NoExc

\* normalize_stats(raw): the record, or the exception raised.
normalize_stats(r) ==
    IF r.shape \in {"empty_list", "number", "string", "null", "none"}
    THEN Raise(r.obj, Exc("ValueError", "shape", "", 0))
    ELSE IF r.shape = "list_number"
    THEN \* "k not in obj" on a number
         Raise(r.obj, Exc("TypeError", "not_iterable", "", 0))
    ELSE IF r.shape \in {"list_string", "list_list"}
    THEN \* "k not in obj" is true of a string or a list without the key
         Raise(r.obj, Exc("ValueError", "missing_key", required_top[1], 0))
    ELSE IF FirstMissing(required_top, r.obj.keys) # ""
    THEN Raise(r.obj, Exc("ValueError", "missing_key", FirstMissing(required_top, r.obj.keys), 0))
    ELSE IF check_streak("currentStreak", r.obj.cs) # NoExc
    THEN Raise(r.obj, check_streak("currentStreak", r.obj.cs))
    ELSE IF check_streak("longestStreak", r.obj.ls) # NoExc
    THEN Raise(r.obj, check_streak("longestStreak", r.obj.ls))
    ELSE Ok(r.obj)

\* int(x) of Python: the number, or TypeError (None) / ValueError (text).
to_int(x) ==
    IF x.kind = "int" THEN Ok(x.v)
    ELSE IF x.kind = "null" THEN Raise(0, Exc("TypeError", "int", "", 0))
    ELSE Raise(0, Exc("ValueError", "int", "", 0))

\* compute_days_missed without the clamp "max(0, ...)".
compute_days_missed_unclamped(s, now) ==
    IF ~IsIsoDate(s) THEN Raise(0, Exc("ValueError", "date", "", 0))
    ELSE Ok(DeltaDays(now, iso_to_date(s)))

\* compute_days_missed(last_active_str) with today_utc() = now.
compute_days_missed(s, now) ==
    IF ~IsIsoDate(s) THEN Raise(0, Exc("ValueError", "date", "", 0))
    ELSE Ok(Max(0, DeltaDays(now, iso_to_date(s))))

\* pick_meme(days_missed) when random.choice picks the i-th template.
Templates(cat) == IF cat = "missed" THEN 1 .. NumMissedTemplates ELSE 1 .. NumActiveTemplates
\* meme_category with the test "days_missed >= 0".
meme_category_nonneg(dm) == IF dm >= 0 THEN "missed" ELSE "active"
\* "if days_missed > 0" of pick_meme: which list the template is drawn from.
meme_category(dm) == IF dm > 0 THEN "missed" ELSE "active"
pick_meme(dm, i) == Msg("meme", meme_category(dm), i, FALSE)

\* build_discord_message: the meme line and the details line.
build_discord_message(dm, i) == pick_meme(dm, i)

\* -------------------------------------------------- monitor.py: main's steps

\* secondary_escapes without the try statement: a network error of the POST
\* leaves notify_secondary as an exception.
secondary_escapes_uncaught(a) == a.net

\* Does the answer a of the secondary POST leave notify_secondary as an
\* exception?  "except Exception" catches whatever requests.post raises, and
\* the status of an answer is not looked at.
secondary_escapes(a) == FALSE

\* The exception of notify_secondary that leaves main(): the interpreter ends
\* with status 1 and the traceback.
Uncaught == Exc("RequestException", "uncaught", "", 0)

\* Has the call of notify_secondary of this step raised?
notify_secondary_raised ==
    /\ env.secondary
    /\ secondary_escapes(secondaryPosts'[Len(secondaryPosts')])

\* notify_secondary(message, timeout): posts when SECONDARY_ERROR_WEBHOOK is
\* set, whatever the answer; an exception of the POST is caught and logged.
notify_secondary ==
    /\ secondaryCalls' = secondaryCalls + 1
    /\ IF env.secondary
       THEN \E a \in WebhookAnswers : secondaryPosts' = Append(secondaryPosts, a)
       ELSE secondaryPosts' = secondaryPosts

\* main(): load the configuration; without DISCORD_WEBHOOK_URL the run is fatal.
main_start ==
    /\ prog = "monitor" /\ pc = "start"
    /\ pc' = IF ~env.webhook THEN "config_fatal" ELSE "fetch"
    /\ UNCHANGED <<cfgVars, clockVars, loopVars, dataVars, ghostVars, escVars,
                   exc, exitCode, trace>>

\* "if not webhook": notify_secondary(...), return 2.
main_config_fatal ==
    /\ prog = "monitor" /\ pc = "config_fatal"
    /\ notify_secondary
    /\ exc' = IF notify_secondary_raised THEN Uncaught
              ELSE Exc("ConfigError", "webhook_missing", "", 0)
    /\ exitCode' = IF notify_secondary_raised THEN 1 ELSE 2
    /\ pc' = "done"
    /\ trace' = Visit("Escalate")
    /\ UNCHANGED <<cfgVars, clockVars, loopVars, dataVars, ghostVars>>

\* What one attempt of fetch_with_retry raises on the answer a (NoExc: it returns).
fetch_error(a, n) ==
    IF a.net THEN Exc("RequestException", "net", "", n)
    ELSE IF ~status_ok(a.status) THEN Exc("RuntimeError", "http", "", n)
    ELSE IF ~a.body.json THEN Exc("RuntimeError", "invalid_json", "", n)
    ELSE NoExc

\* fetch_more of a loop "while True".
fetch_more_forever(n) == TRUE

\* Does the loop of fetch_with_retry / post_discord_with_retry go on after n attempts?
fetch_more(n) == n < FetchMaxAttempts
post_more(n) == n < PostMaxAttempts

\* One attempt of fetch_with_retry; after the last failed one, "raise last_exc".
fetch_with_retry ==
    /\ prog = "monitor" /\ pc = "fetch"
    /\ fetch_more(attempts)
    /\ \E a \in StatsAnswers :
         LET n == attempts + 1
             e == fetch_error(a, n)
         IN /\ attempts' = n
            /\ loops' = [loops EXCEPT !.fetch = Append(@, Attempt(a, e = NoExc, e))]
            /\ IF e = NoExc
               THEN /\ raw' = a.body
                    /\ pc' = "normalize"
                    /\ wrapperExit' = [wrapperExit EXCEPT !.fetch = "returned"]
                    /\ UNCHANGED <<last_exc, sleeps, exc>>
               ELSE /\ last_exc' = e
                    /\ sleeps' = [sleeps EXCEPT !.fetch = IF fetch_more(n) THEN @ + 1 ELSE @]
                    /\ raw' = raw
                    /\ IF fetch_more(n)
                       THEN /\ pc' = "fetch"
                            /\ UNCHANGED <<wrapperExit, exc>>
                       ELSE /\ pc' = "except"
                            /\ exc' = e
                            /\ wrapperExit' = [wrapperExit EXCEPT !.fetch = "raised"]
    /\ trace' = Visit("Fetch")
    /\ UNCHANGED <<cfgVars, clockVars, resp, err, stats, last_active_str, streak_len_days,
                   today, logged_today, days_missed, content, escVars, exitCode>>

\* stats = normalize_stats(raw)
main_normalize ==
    /\ prog = "monitor" /\ pc = "normalize"
    /\ LET r == normalize_stats(raw)
       IN IF r.ok
          THEN /\ stats' = Json("dict", r.val) /\ pc' = "compute" /\ exc' = exc
          ELSE /\ stats' = stats /\ pc' = "except" /\ exc' = r.exc
    /\ trace' = Visit("Normalize")
    /\ UNCHANGED <<cfgVars, clockVars, loopVars, raw, last_active_str, streak_len_days,
                   today, logged_today, days_missed, content, ghostVars, escVars, exitCode>>

\* last_active_str, streak_len_days = int(...), compute_days_missed(last_active_str)
main_compute ==
    /\ prog = "monitor" /\ pc = "compute"
    /\ LET cs == stats.obj.cs
           n == to_int(cs.days)
           dm == compute_days_missed(cs.end, clock)
       IN /\ last_active_str' = cs.end
          /\ IF ~n.ok
             THEN /\ exc' = n.exc /\ pc' = "except"
                  /\ UNCHANGED <<streak_len_days, today, days_missed>>
             ELSE /\ streak_len_days' = n.val
                  /\ IF ~dm.ok
                     THEN /\ exc' = dm.exc /\ pc' = "except"
                          /\ UNCHANGED <<today, days_missed>>
                     ELSE /\ today' = clock
                          /\ days_missed' = dm.val
                          /\ pc' = "log"
                          /\ exc' = exc
    /\ trace' = Visit("Compute")
    /\ UNCHANGED <<cfgVars, clockVars, loopVars, raw, stats, logged_today, content,
                   ghostVars, escVars, exitCode>>

\* log(f"Computed daysMissed=... from today={today_utc().isoformat()} ...")
main_log ==
    /\ prog = "monitor" /\ pc = "log"
    /\ logged_today' = clock
    /\ pc' = "decide"
    /\ UNCHANGED <<cfgVars, clockVars, loopVars, raw, stats, last_active_str,
                   streak_len_days, today, days_missed, content, ghostVars, escVars,
                   exc, exitCode, trace>>

\* Is a notification due?  days_missed > 0, or ALWAYS_NOTIFY_ACTIVE = "1".
notify_due(dm, always) == dm > 0 \/ always

\* "if days_missed > 0 ... else ...": build the message, or return 0 at once.
main_decide ==
    /\ prog = "monitor" /\ pc = "decide"
    /\ IF notify_due(days_missed, env.always_notify)
       THEN /\ \E i \in Templates(meme_category(days_missed)) :
                 content' = build_discord_message(days_missed, i)
            /\ pc' = "post"
            /\ attempts' = 0
            /\ last_exc' = NoExc
            /\ exitCode' = exitCode
            /\ trace' = Append(Visit("Decide"), "Generate")
       ELSE /\ pc' = "done"
            /\ exitCode' = 0
            /\ trace' = Visit("Decide")
            /\ UNCHANGED <<attempts, last_exc, content>>
    /\ UNCHANGED <<cfgVars, clockVars, resp, err, raw, stats, last_active_str,
                   streak_len_days, today, logged_today, days_missed, ghostVars, escVars, exc>>

\* post_error with "if not ok: raise" left out: any answer counts as delivered.
post_error_unchecked(a, n) ==
    IF a.net THEN Exc("RequestException", "net", "", n) ELSE NoExc

\* What one attempt of post_discord_with_retry raises on the answer a.
post_error(a, n) ==
    IF a.net THEN Exc("RequestException", "net", "", n)
    ELSE IF ~status_ok(a.status) THEN Exc("RuntimeError", "http", "", n)
    ELSE NoExc

\* post_returns of a loop that goes on after a delivered message.
post_returns_never(e) == FALSE

\* "if ok: ... return" of post_discord_with_retry: the loop is left on the
\* first attempt that raised nothing.
post_returns(e) == e = NoExc

\* One attempt of post_discord_with_retry; main returns 0 when it returns.
post_discord_with_retry ==
    /\ prog = "monitor" /\ pc = "post"
    /\ post_more(attempts)
    /\ \E a \in WebhookAnswers :
         LET n == attempts + 1
             e == post_error(a, n)
         IN /\ attempts' = n
            /\ loops' = [loops EXCEPT !.post = Append(@, Attempt(a, e = NoExc, e))]
            /\ IF post_returns(e)
               THEN /\ pc' = "done"
                    /\ exitCode' = 0
                    /\ wrapperExit' = [wrapperExit EXCEPT !.post = "returned"]
                    /\ UNCHANGED <<last_exc, sleeps, exc>>
               ELSE /\ last_exc' = e
                    /\ sleeps' = [sleeps EXCEPT !.post = IF post_more(n) THEN @ + 1 ELSE @]
                    /\ exitCode' = exitCode
                    /\ IF post_more(n)
                       THEN /\ pc' = "post"
                            /\ UNCHANGED <<wrapperExit, exc>>
                       ELSE /\ pc' = "except"
                            /\ exc' = e
                            /\ wrapperExit' = [wrapperExit EXCEPT !.post = "raised"]
    /\ trace' = Visit("Dispatch")
    /\ UNCHANGED <<cfgVars, clockVars, resp, err, dataVars, escVars>>

\* "except Exception as e": notify_secondary(...), return 1.
main_except ==
    /\ prog = "monitor" /\ pc = "except"
    /\ notify_secondary
    /\ exc' = IF notify_secondary_raised THEN Uncaught ELSE exc
    /\ exitCode' = 1
    /\ pc' = "done"
    /\ trace' = Visit("Escalate")
    /\ UNCHANGED <<cfgVars, clockVars, loopVars, dataVars, ghostVars>>

\* --------------------------------------------------------- main.py: run()

\* "if 200 <= resp.status_code < 300" of _request_with_retries
resp_ok(st) == 200 <= st /\ st < 300

\* request_more with the range one too long.
request_more_off_by_one(n) == n <= max_retries

\* The loop "for attempt in range(1, max_retries + 1)" goes on after n attempts.
request_more(n) == n < max_retries

\* last_err after an attempt with the answer a: only "except Exception as e"
\* assigns it; a non-2xx answer leaves it as it was.
request_last_err(a, n, prev) == IF a.net THEN Exc("RequestException", "net", "", n) ELSE prev

\* Is time.sleep reached after a failed attempt n?  It follows the try
\* statement inside the loop, on every failed attempt.
request_sleeps(n) == TRUE

\* The retry loop of _request_with_retries at the call site, answered from Answers.
request_with_retries(site, Answers, ret) ==
    /\ request_more(attempts)
    /\ \E a \in Answers :
         LET n == attempts + 1
             ok == ~a.net /\ resp_ok(a.status)
             e == IF a.net THEN Exc("RequestException", "net", "", n)
                  ELSE IF ok THEN NoExc ELSE Exc("HTTPStatus", "http", "", n)
             le == request_last_err(a, n, last_exc)
         IN /\ attempts' = n
            /\ loops' = [loops EXCEPT ![site] = Append(@, Attempt(a, ok, e))]
            /\ IF ok
               THEN \* return resp, None
                    /\ resp' = a /\ err' = NoExc
                    /\ pc' = ret
                    /\ wrapperExit' = [wrapperExit EXCEPT ![site] = "returned"]
                    /\ UNCHANGED <<last_exc, sleeps>>
               ELSE /\ last_exc' = le
                    /\ sleeps' = [sleeps EXCEPT ![site] = IF request_sleeps(n) THEN @ + 1 ELSE @]
                    /\ IF request_more(n)
                       THEN UNCHANGED <<resp, err, pc, wrapperExit>>
                       ELSE \* return None, last_err
                            /\ resp' = NoResp /\ err' = le
                            /\ pc' = ret
                            /\ wrapperExit' = [wrapperExit EXCEPT ![site] = "returned_failure"]

\* request_failed that looks at err alone.
request_failed_err_only(rsp, er) == er # NoExc

\* "if err or resp is None" of the callers of _request_with_retries
request_failed(rsp, er) == er # NoExc \/ rsp = NoResp

\* run(): read the configuration and go to step 1.
run_start ==
    /\ prog = "main" /\ pc = "start"
    /\ pc' = "r_fetch"
    /\ attempts' = 0 /\ last_exc' = NoExc
    /\ UNCHANGED <<cfgVars, clockVars, resp, err, dataVars, ghostVars, escVars,
                   exc, exitCode, trace>>

\* fetch_streak_stats: the GET with retries.
run_fetch_request ==
    /\ prog = "main" /\ pc = "r_fetch"
    /\ request_with_retries("fetch", StatsAnswers, "r_fetch_ret")
    /\ trace' = Visit("Fetch")
    /\ UNCHANGED <<cfgVars, clockVars, dataVars, escVars, exc, exitCode>>

\* fetch_streak_stats after the request: data[0], or the RuntimeError raised.
fetch_streak_stats(rsp, er) ==
    IF request_failed(rsp, er) THEN Raise(NotJson, Exc("RuntimeError", "fetch_failed", "", er.att))
    ELSE IF ~rsp.body.json THEN Raise(NotJson, Exc("RuntimeError", "invalid_json", "", 0))
    ELSE IF rsp.body.shape \notin {"list_obj", "list_number", "list_string", "list_list"}
    THEN Raise(NotJson, Exc("RuntimeError", "shape", "", 0))
    ELSE Ok(Json(CASE rsp.body.shape = "list_obj" -> "dict"
                   [] rsp.body.shape = "list_number" -> "number"
                   [] rsp.body.shape = "list_string" -> "string"
                   [] OTHER -> "empty_list",
                 rsp.body.obj))

\* Step 1 of run(): "except Exception: return 1".
run_fetch_ret ==
    /\ prog = "main" /\ pc = "r_fetch_ret"
    /\ LET r == fetch_streak_stats(resp, err)
       IN IF r.ok
          THEN /\ stats' = r.val /\ raw' = resp.body
               /\ pc' = "r_extract"
               /\ UNCHANGED <<exc, exitCode>>
          ELSE /\ exc' = r.exc /\ exitCode' = 1 /\ pc' = "done"
               /\ UNCHANGED <<stats, raw>>
    /\ trace' = Visit("Fetch")
    /\ UNCHANGED <<cfgVars, clockVars, loopVars, last_active_str, streak_len_days, today,
                   logged_today, days_missed, content, ghostVars, escVars>>

\* current = stats.get("currentStreak", {}) or {}: the streak object read, or
\* the AttributeError of .get on a value that is no object.
run_current(st) ==
    IF st.shape # "dict" THEN Raise(st.obj.cs, Exc("AttributeError", "get", "", 0))
    ELSE IF "currentStreak" \notin st.obj.keys \/ st.obj.cs.kind = "null"
    THEN Ok([st.obj.cs EXCEPT !.kind = "dict", !.keys = {}])
    ELSE IF st.obj.cs.kind # "dict"
    THEN Raise(st.obj.cs, Exc("AttributeError", "get", "currentStreak", 0))
    ELSE Ok(st.obj.cs)

\* "Extract pieces" of run(): last_active, current_streak_days, today_str.
run_extract ==
    /\ prog = "main" /\ pc = "r_extract"
    /\ LET c == run_current(stats)
           n == IF "days" \in c.val.keys THEN to_int(c.val.days) ELSE to_int(NullVal)
       IN IF ~c.ok \/ ~n.ok
          THEN /\ exc' = IF ~c.ok THEN c.exc ELSE n.exc
               /\ exitCode' = 1 /\ pc' = "done"
               /\ last_active_str' = IF ~c.ok THEN last_active_str
                                     ELSE IF "end" \in c.val.keys THEN c.val.end ELSE NoneStr
               /\ UNCHANGED <<streak_len_days, today>>
          ELSE /\ last_active_str' = IF "end" \in c.val.keys THEN c.val.end ELSE NoneStr
               /\ streak_len_days' = n.val
               /\ today' = clock
               /\ pc' = "r_compute"
               /\ UNCHANGED <<exc, exitCode>>
    /\ trace' = Visit("Normalize")
    /\ UNCHANGED <<cfgVars, clockVars, loopVars, raw, stats, logged_today, days_missed,
                   content, ghostVars, escVars>>

\* compute_days_missed(last_active_str, today_str) of main.py
run_compute_days_missed(s, t) ==
    IF ~IsIsoDate(s) \/ ~IsIsoDate(t) THEN Raise(0, Exc("ValueError", "date", "", 0))
    ELSE Ok(Max(0, DeltaDays(iso_to_date(t), iso_to_date(s))))

\* Step 2 of run().
run_compute ==
    /\ prog = "main" /\ pc = "r_compute"
    /\ LET dm == run_compute_days_missed(last_active_str, isoformat(today))
       IN IF dm.ok
          THEN /\ days_missed' = dm.val /\ pc' = "r_generate"
               /\ UNCHANGED <<exc, exitCode>>
          ELSE /\ exc' = dm.exc /\ exitCode' = 1 /\ pc' = "done"
               /\ UNCHANGED days_missed
    /\ trace' = Visit("Compute")
    /\ UNCHANGED <<cfgVars, clockVars, loopVars, raw, stats, last_active_str,
                   streak_len_days, today, logged_today, content, ghostVars, escVars>>

\* _fallback_message(today, last_active, current_streak_days, days_missed)
fallback_message(dm) == Msg("fallback", IF dm > 0 THEN "missed" ELSE "active", 0, FALSE)

\* deepseek_generate_message: without a key the fallback text, else the POST.
run_generate ==
    /\ prog = "main" /\ pc = "r_generate"
    /\ IF ~env.api_key
       THEN /\ content' = fallback_message(days_missed)
            /\ pc' = "r_dispatch"
       ELSE /\ content' = content
            /\ pc' = "r_gen"
    /\ attempts' = 0 /\ last_exc' = NoExc
    /\ trace' = Visit("Generate")
    /\ UNCHANGED <<cfgVars, clockVars, resp, err, raw, stats, last_active_str,
                   streak_len_days, today, logged_today, days_missed, ghostVars, escVars,
                   exc, exitCode>>

\* deepseek_generate_message: the POST with retries.
run_gen_request ==
    /\ prog = "main" /\ pc = "r_gen"
    /\ request_with_retries("gen", GenAnswers, "r_gen_ret")
    /\ UNCHANGED <<cfgVars, clockVars, dataVars, escVars, exc, exitCode, trace>>

\* deepseek_message without the try/except around the parsing of the answer:
\* whatever a 2xx answer holds is returned as the text.
deepseek_message_unguarded(rsp, er, dm) ==
    IF request_failed(rsp, er) THEN fallback_message(dm)
    ELSE Msg("deepseek", "remote", 0, rsp.body.shape # "gen_text")

\* deepseek_generate_message after the request: the text it returns.
deepseek_message(rsp, er, dm) ==
    IF request_failed(rsp, er) THEN fallback_message(dm)
    ELSE IF ~rsp.body.json \/ rsp.body.shape \notin {"gen_text", "gen_blank"}
    THEN \* resp.json() or data["choices"][0]["message"]["content"] raises
         fallback_message(dm)
    ELSE \* str(content.strip())
         Msg("deepseek", "remote", 0, rsp.body.shape = "gen_blank")

run_gen_ret ==
    /\ prog = "main" /\ pc = "r_gen_ret"
    /\ content' = deepseek_message(resp, err, days_missed)
    /\ pc' = "r_dispatch"
    /\ UNCHANGED <<cfgVars, clockVars, loopVars, raw, stats, last_active_str,
                   streak_len_days, today, logged_today, days_missed, ghostVars, escVars,
                   exc, exitCode, trace>>

\* discord_post_message: "if not webhook_url: raise", caught by run() as exit 1.
run_dispatch ==
    /\ prog = "main" /\ pc = "r_dispatch"
    /\ IF ~env.webhook
       THEN /\ exc' = Exc("RuntimeError", "webhook_missing", "", 0)
            /\ exitCode' = 1 /\ pc' = "done"
       ELSE /\ pc' = "r_post"
            /\ UNCHANGED <<exc, exitCode>>
    /\ attempts' = 0 /\ last_exc' = NoExc
    /\ trace' = Visit("Dispatch")
    /\ UNCHANGED <<cfgVars, clockVars, resp, err, dataVars, ghostVars, escVars>>

\* discord_post_message: the POST with retries.
run_post_request ==
    /\ prog = "main" /\ pc = "r_post"
    /\ request_with_retries("post", WebhookAnswers, "r_post_ret")
    /\ UNCHANGED <<cfgVars, clockVars, dataVars, escVars, exc, exitCode, trace>>

\* The exit code of run() after discord_post_message.
run_post_result(rsp, er) == IF request_failed(rsp, er) THEN 1 ELSE 0

\* Step 4 of run(): exit 1 when the post failed, else the summary and exit 0.
run_post_ret ==
    /\ prog = "main" /\ pc = "r_post_ret"
    /\ exitCode' = run_post_result(resp, err)
    /\ exc' = IF request_failed(resp, err)
              THEN Exc("RuntimeError", "post_failed", "", err.att) ELSE exc
    /\ pc' = "done"
    /\ UNCHANGED <<cfgVars, clockVars, loopVars, dataVars, ghostVars, escVars, trace>>

\* ---------------------------------------------------------- specification
Next ==
    \/ Tick
    \/ main_start
    \/ main_config_fatal
    \/ fetch_with_retry
    \/ main_normalize
    \/ main_compute
    \/ main_log
    \/ main_decide
    \/ post_discord_with_retry
    \/ main_except
    \/ run_start
    \/ run_fetch_request
    \/ run_fetch_ret
    \/ run_extract
    \/ run_compute
    \/ run_generate
    \/ run_gen_request
    \/ run_gen_ret
    \/ run_dispatch
    \/ run_post_request
    \/ run_post_ret

Spec == Init /\ [][Next]_vars

\* The steps of the program itself: every step but the wall clock's.
ProgramStep ==
    \/ main_start \/ main_config_fatal \/ fetch_with_retry \/ main_normalize
    \/ main_compute \/ main_log \/ main_decide \/ post_discord_with_retry
    \/ main_except
    \/ run_start \/ run_fetch_request \/ run_fetch_ret \/ run_extract
    \/ run_compute \/ run_generate \/ run_gen_request \/ run_gen_ret
    \/ run_dispatch \/ run_post_request \/ run_post_ret

\* The interpreter runs the single thread of main() / run() on: every request
\* has a timeout and every sleep ends, so an enabled step is taken.
FairSpec == Spec /\ WF_vars(ProgramStep)

\* ------------------------------------------------------- what a run did
\* The requests a run issued are the attempts of its retry loops: "fetch" is
\* the GET to the stats source, "gen" the POST to the generation service,
\* "post" the POST to the primary webhook.

Is2xx(st) == st \in 200 .. 299
SeqHas(seq, x) == \E i \in 1 .. Len(seq) : seq[i] = x
Done == pc = "done"

\* Some POST to the primary webhook was answered with a 2xx status.
Primary2xx == \E i \in 1 .. Len(loops.post) : ~loops.post[i].net /\ Is2xx(loops.post[i].status)

\* days_missed holds the value the run computed.
DaysMissedComputed ==
    \/ pc \in {"log", "decide", "r_generate"}
    \/ SeqHas(trace, "Decide") \/ SeqHas(trace, "Generate")

\* ---------------------------------------------------------------- claims

\* C1: a notification is never silently dropped: a run that computed
\* daysMissed > 0 ends with exit code 0 only if some POST to the primary
\* webhook was answered 2xx in that run; otherwise its exit code is not 0.
C1_NeverSilentlyDropped ==
    (Done /\ DaysMissedComputed /\ days_missed > 0)
        => (IF Primary2xx THEN exitCode = 0 ELSE exitCode \in {1, 2})

\* C1 witness: a streak was missed, the first POST failed, the retry was
\* answered 2xx, and the run ended with exit code 0.
C1_Witness ==
    /\ Done /\ DaysMissedComputed /\ days_missed > 0
    /\ Len(loops.post) = 2 /\ Primary2xx /\ exitCode = 0

\* A pipeline step ended the run with an error.
PipelineFailed == exc # NoExc /\ exc.type # "ConfigError"
EscalationInvoked == secondaryCalls > 0

\* C2: escalation is invoked in a run exactly when the primary webhook is
\* unconfigured at startup or a pipeline step raised an unrecovered error: in
\* every such run, and in no run that ends as success or as the no-op.
C2_EscalationExactlyOnFailure ==
    Done => (EscalationInvoked <=> (~env.webhook \/ PipelineFailed))

\* C2 as it holds of monitor.py alone.
C2_MonitorEscalation ==
    (prog = "monitor" /\ Done)
        => /\ EscalationInvoked <=> (~env.webhook \/ PipelineFailed)
           /\ secondaryCalls <= 1
           /\ exitCode = 0 => ~EscalationInvoked

\* C3: the exit code is 2 when the primary webhook URL is missing, 1 on a
\* pipeline failure (after the escalation attempt), 0 otherwise.
C3_ExitCodes ==
    Done => /\ exitCode = (IF ~env.webhook THEN 2 ELSE IF PipelineFailed THEN 1 ELSE 0)
            /\ exitCode = 1 => EscalationInvoked

\* C3 as it holds of monitor.py alone.
C3_MonitorExitCodes ==
    (prog = "monitor" /\ Done)
        => /\ exitCode = (IF ~env.webhook THEN 2 ELSE IF PipelineFailed THEN 1 ELSE 0)
           /\ exitCode = 1 => EscalationInvoked

\* The run went to the Dispatch step / issued a POST to the primary webhook.
DispatchAttempted == SeqHas(trace, "Dispatch")
PrimaryPosted == Len(loops.post) > 0

\* C4: with daysMissed > 0 the run always attempts a dispatch; with
\* daysMissed = 0 it attempts one only if the opt-in flag is set, and
\* otherwise ends with exit code 0 and no POST to the primary webhook.
C4_Decide ==
    (Done /\ DaysMissedComputed)
        => /\ days_missed > 0 => DispatchAttempted
           /\ (days_missed = 0 /\ DispatchAttempted) => env.always_notify
           /\ (days_missed = 0 /\ ~env.always_notify) => (exitCode = 0 /\ ~PrimaryPosted)

\* C4 as it holds of monitor.py alone.
C4_MonitorDecide ==
    (prog = "monitor" /\ Done /\ DaysMissedComputed)
        => /\ days_missed > 0 => DispatchAttempted
           /\ (days_missed = 0 /\ DispatchAttempted) => env.always_notify
           /\ (days_missed = 0 /\ ~env.always_notify) => (exitCode = 0 /\ ~PrimaryPosted)

\* The retry loops: the attempts of a loop all failed; the loop was left by
\* reporting exhaustion (an exception raised, or a failure result returned).
AllFailed(h) == \A i \in 1 .. Len(h) : ~h[i].ok
LastOf(h) == h[Len(h)]
ExhaustionReported(s) == wrapperExit[s] \in {"raised", "returned_failure"}

C6_NeverRaises ==
    \A s \in Sites :
        /\ wrapperExit[s] # "raised"
        /\ (Len(loops[s]) > 0 /\ AllFailed(loops[s]) /\ wrapperExit[s] # "none")
              => wrapperExit[s] = "returned_failure"

\* C6 amended: on exhaustion main.py's _request_with_retries returns the
\* failure result (None, last_err) and never raises, and its caller decides:
\* a failed fetch or webhook post ends the run with exit code 1, a failed
\* generation call does not end it.  monitor.py's fetch_with_retry and
\* post_discord_with_retry raise the exception of the last attempt; main()
\* catches it, escalates and returns 1.
C6_FailureReportedToCaller ==
    /\ prog = "main" =>
         /\ \A s \in Sites :
              /\ wrapperExit[s] # "raised"
              /\ (Len(loops[s]) > 0 /\ AllFailed(loops[s]) /\ wrapperExit[s] # "none")
                    => wrapperExit[s] = "returned_failure"
         /\ (wrapperExit.fetch = "returned_failure" /\ pc # "r_fetch_ret")
               => (Done /\ exitCode = 1)
         /\ (wrapperExit.post = "returned_failure" /\ pc # "r_post_ret")
               => (Done /\ exitCode = 1)
         /\ (wrapperExit.gen = "returned_failure" /\ Done) => DispatchAttempted
    /\ prog = "monitor" =>
         \A s \in Sites :
              /\ wrapperExit[s] # "returned_failure"
              /\ (Len(loops[s]) > 0 /\ AllFailed(loops[s]) /\ wrapperExit[s] # "none")
                    => /\ wrapperExit[s] = "raised"
                       /\ exc = LastOf(loops[s]).exc
                       /\ pc \in {"except", "done"}
                       /\ Done => (exitCode = 1 /\ EscalationInvoked)

\* C6 witness: monitor.py's fetch loop raised after its last attempt and
\* main() ended the run with exit code 1.
C6_Witness ==
    /\ prog = "monitor" /\ wrapperExit.fetch = "raised" /\ Done /\ exitCode = 1

\* The position of run() right after _request_with_retries returned at s.
RetPc(s) == CASE s = "fetch" -> "r_fetch_ret" [] s = "gen" -> "r_gen_ret" [] OTHER -> "r_post_ret"

\* C7: when a retry loop is exhausted, the error it reports is the error of
\* the final attempt: never absent, never the error of an earlier attempt.
C7_LastErrorReported ==
    \A s \in Sites :
        /\ wrapperExit[s] = "raised"
              => (exc # NoExc /\ exc = LastOf(loops[s]).exc)
        /\ (wrapperExit[s] = "returned_failure" /\ pc = RetPc(s))
              => (err # NoExc /\ err = LastOf(loops[s]).exc)

\* C7 as it holds of monitor.py alone.
C7_MonitorLastError ==
    prog = "monitor" =>
        \A s \in Sites :
            (Len(loops[s]) > 0 /\ ~LastOf(loops[s]).ok)
                => (last_exc # NoExc /\ last_exc = LastOf(loops[s]).exc
                    /\ (wrapperExit[s] = "raised" => exc = last_exc))

\* C8: with the primary webhook URL unset the run issues no request to the
\* stats source, the generation service or the primary webhook, attempts
\* escalation (a POST only if the secondary webhook is configured) and ends
\* with exit code 2.
C8_ConfigFatalImmediate ==
    ~env.webhook =>
        /\ loops.fetch = <<>> /\ loops.gen = <<>> /\ loops.post = <<>>
        /\ Done => /\ exitCode = 2
                   /\ secondaryCalls = 1
                   /\ Len(secondaryPosts) = (IF env.secondary THEN 1 ELSE 0)

\* C8 as it holds of monitor.py alone.
C8_MonitorConfigFatal ==
    (prog = "monitor" /\ ~env.webhook) =>
        /\ loops.fetch = <<>> /\ loops.gen = <<>> /\ loops.post = <<>>
        /\ Done => /\ exitCode = 2
                   /\ secondaryCalls = 1
                   /\ Len(secondaryPosts) = (IF env.secondary THEN 1 ELSE 0)

\* The pipeline's steps in the order of the design.
StepRank(st) ==
    CASE st = "Fetch" -> 1 [] st = "Normalize" -> 2 [] st = "Compute" -> 3
      [] st = "Decide" -> 4 [] st = "Generate" -> 5 [] st = "Dispatch" -> 6
      [] OTHER -> 7

\* The step whose error ended the pipeline, read off the exception.
FailedStep ==
    IF ExhaustionReported("post") \/ exc.kind \in {"post_failed", "webhook_missing"}
    THEN "Dispatch"
    ELSE IF exc.kind \in {"net", "http", "invalid_json", "fetch_failed"} THEN "Fetch"
    ELSE IF exc.kind = "shape" THEN (IF prog = "monitor" THEN "Normalize" ELSE "Fetch")
    ELSE IF exc.kind \in {"missing_key", "not_object", "not_iterable", "get"} THEN "Normalize"
    ELSE IF exc.kind = "int" THEN (IF prog = "monitor" THEN "Compute" ELSE "Normalize")
    ELSE "Compute"

\* The steps are visited in the order Fetch, Normalize, Compute, Decide,
\* Generate, Dispatch (and Escalate last).
StepsInOrder ==
    \A i, j \in 1 .. Len(trace) : i < j => StepRank(trace[i]) < StepRank(trace[j])

\* Once a step failed fatally the pipeline is over: no later step was visited,
\* and after a failed fetch, normalize or compute no POST went to the webhook.
TerminalOnFirstError ==
    PipelineFailed =>
        /\ pc \in {"except", "done"}
        /\ \A i \in 1 .. Len(trace) :
               trace[i] # "Escalate" => StepRank(trace[i]) <= StepRank(FailedStep)
        /\ FailedStep \in {"Fetch", "Normalize", "Compute"} => loops.post = <<>>

\* Every fetch attempt of the finished run was answered HTTP 500.
FetchAlways500 ==
    /\ Done /\ loops.fetch # <<>>
    /\ \A i \in 1 .. Len(loops.fetch) : ~loops.fetch[i].net /\ loops.fetch[i].status = 500

\* C9: the steps run only in the order Fetch, Normalize, Compute, Decide,
\* Generate, Dispatch; the pipeline is terminal on the first fatal error (no
\* POST to the primary webhook after a failed fetch, normalize or compute);
\* and when every fetch attempt returns HTTP 500 the run ends with escalation
\* invoked and exit code 1.
C9_LinearTerminalPipeline ==
    /\ StepsInOrder
    /\ TerminalOnFirstError
    /\ FetchAlways500 => (EscalationInvoked /\ exitCode = 1)

\* C9 as it holds of both programs: the order and the terminality, and the
\* exit code 1 after HTTP 500 on every fetch attempt; the escalation holds of
\* monitor.py alone.
C9_OrderAndTerminality ==
    /\ StepsInOrder
    /\ TerminalOnFirstError
    /\ FetchAlways500 => exitCode = 1
    /\ (FetchAlways500 /\ prog = "monitor") => EscalationInvoked

\* The generation path of main.py failed: no credential, the retries
\* exhausted, or an answer without the text.
GenerationFailed ==
    \/ ~env.api_key
    \/ wrapperExit.gen = "returned_failure"
    \/ /\ wrapperExit.gen = "returned"
       /\ LastOf(loops.gen).shape \notin {"gen_text", "gen_blank"}

\* C10: a failure of the primary message-generation path is recovered inside
\* the generator by the fallback path: it never makes the run fail, and the
\* run proceeds to Dispatch with the fallback text.
C10_GenerationRecovered ==
    (prog = "main" /\ SeqHas(trace, "Generate")) =>
        /\ PipelineFailed => (FailedStep = "Dispatch" /\ DispatchAttempted)
        /\ Done => DispatchAttempted
        /\ (GenerationFailed /\ pc \in {"r_dispatch", "r_post", "r_post_ret", "done"})
              => (content.src = "fallback" /\ ~content.empty)

\* C10 witness: the generation call was given up after its retries, and the
\* run is posting the fallback text to the webhook.
C10_Witness ==
    /\ prog = "main" /\ wrapperExit.gen = "returned_failure"
    /\ pc = "r_post" /\ Len(loops.post) = 1
    /\ content.src = "fallback"

\* The message generator has returned: content holds its text.
MessageGenerated == content # NoMsg

\* C11: the message generator always returns a non-empty string and never
\* raises, whatever its inputs and whatever the generation service answers,
\* a well-formed answer with empty or whitespace-only text included.
C11_MessageNeverEmpty ==
    /\ MessageGenerated => ~content.empty
    /\ (prog = "main" /\ SeqHas(trace, "Generate") /\ PipelineFailed)
          => FailedStep = "Dispatch"

\* C11 as it holds of the local paths: the text of pick_meme and of
\* _fallback_message is never empty, and no generation path raises.
C11_LocalTextNeverEmpty ==
    /\ (MessageGenerated /\ content.src \in {"meme", "fallback"}) => ~content.empty
    /\ (prog = "main" /\ SeqHas(trace, "Generate") /\ PipelineFailed)
          => FailedStep = "Dispatch"

\* The same record in the other wrapping: [record] for record and back.
Twin(b) == Json(IF b.shape = "dict" THEN "list_obj" ELSE "dict", b.obj)
IsRecordBody(b) == b.json /\ b.shape \in {"dict", "list_obj"}

\* monitor.py has just applied normalize_stats to raw.
MonitorNormalized ==
    /\ prog = "monitor" /\ pc \in {"compute", "except"}
    /\ SeqHas(trace, "Normalize") /\ ~SeqHas(trace, "Compute")

\* main.py has just applied the shape check of fetch_streak_stats to a body.
MainNormalized ==
    /\ prog = "main" /\ wrapperExit.fetch = "returned"
    /\ pc = "r_extract" \/ (Done /\ trace = <<"Fetch">>)

\* The outcome monitor.py reached is the one normalize_stats gives for b.
MonitorOutcomeIs(b) ==
    LET r == normalize_stats(b)
    IN IF r.ok THEN pc = "compute" /\ stats = Json("dict", r.val)
       ELSE pc = "except" /\ exc = r.exc

\* The outcome main.py reached is the one fetch_streak_stats gives for b.
MainOutcomeIs(b) ==
    LET r == fetch_streak_stats(Response(200, b), NoExc)
    IN IF r.ok THEN pc = "r_extract" /\ stats = r.val
       ELSE Done /\ exc = r.exc

\* C12: for every record, normalizing [record] and normalizing the bare record
\* give the same outcome: the same canonical record when valid, the same
\* error when not.
C12_WrappingIrrelevant ==
    /\ (MonitorNormalized /\ IsRecordBody(raw)) => MonitorOutcomeIs(Twin(raw))
    /\ (MainNormalized /\ IsRecordBody(resp.body)) => MainOutcomeIs(Twin(resp.body))

\* C12 as it holds of monitor.py's normalize_stats alone.
C12_MonitorWrappingIrrelevant ==
    (MonitorNormalized /\ IsRecordBody(raw)) => MonitorOutcomeIs(Twin(raw))

\* Sanity of the two outcome predicates: each program reached the outcome of
\* the body it was given.
C12_OutcomeOfGivenBody ==
    /\ MonitorNormalized => MonitorOutcomeIs(raw)
    /\ MainNormalized => MainOutcomeIs(resp.body)

\* The schema error of a record whose given key (or dotted path) is missing.
SchemaErrorNaming(e, key) == e.type = "ValueError" /\ e.kind = "missing_key" /\ e.key = key

\* The record the normalizer was given (the list's first element or the bare
\* object), once a program has normalized an object-shaped body.
NormalizedRecord == IF prog = "monitor" THEN raw.obj ELSE resp.body.obj
RecordNormalized ==
    \/ MonitorNormalized /\ IsRecordBody(raw)
    \/ /\ prog = "main" /\ wrapperExit.fetch = "returned"
       /\ resp # NoResp /\ resp.body.json /\ resp.body.shape = "list_obj"
       /\ pc = "r_compute" \/ (Done /\ trace = <<"Fetch", "Normalize">>)

\* The record was accepted / was rejected with the error e.
RecordAccepted == pc \in {"compute", "r_compute"}
RecordRejected == exc # NoExc

\* Exactly the key k is missing at the top level of record o / the key sub is
\* missing in the streak object named name, the rest of o being complete.
OnlyTopMissing(o, k) ==
    /\ o.keys = TopKeys \ {k}
    /\ o.cs.kind = "dict" /\ o.cs.keys = SubKeys
    /\ o.ls.kind = "dict" /\ o.ls.keys = SubKeys
OnlySubMissing(o, name, sub) ==
    /\ o.keys = TopKeys
    /\ o.cs.kind = "dict" /\ o.ls.kind = "dict"
    /\ o.cs.keys = (IF name = "currentStreak" THEN SubKeys \ {sub} ELSE SubKeys)
    /\ o.ls.keys = (IF name = "longestStreak" THEN SubKeys \ {sub} ELSE SubKeys)
Complete(o) ==
    /\ o.keys = TopKeys
    /\ o.cs.kind = "dict" /\ o.cs.keys = SubKeys
    /\ o.ls.kind = "dict" /\ o.ls.keys = SubKeys

SchemaContract ==
    LET o == NormalizedRecord
    IN /\ \A k \in TopKeys :
            OnlyTopMissing(o, k) => (RecordRejected /\ SchemaErrorNaming(exc, k))
       /\ \A name \in {"currentStreak", "longestStreak"} : \A sub \in SubKeys :
            OnlySubMissing(o, name, sub)
               => (RecordRejected /\ SchemaErrorNaming(exc, name \o "." \o sub))
       /\ Complete(o) => (RecordAccepted \/ (RecordRejected /\ exc.kind = "int"))

\* C13: a record missing one of totalContributions, firstContribution,
\* longestStreak, currentStreak is rejected with a schema error naming that
\* key; a streak object lacking start, end or days is rejected with a schema
\* error naming the dotted path; a record with all required keys is accepted
\* whatever extra keys it carries.
C13_SchemaErrorsNameTheKey == RecordNormalized => SchemaContract

\* C13 as it holds of monitor.py's normalize_stats alone.
C13_MonitorSchemaErrors == (MonitorNormalized /\ IsRecordBody(raw)) => SchemaContract

\* The shape error of the normalizer.
ShapeError(e) == e # NoExc /\ e.kind = "shape"

\* The body a program has just normalized, and whether it has one.
NormalizedBody == IF prog = "monitor" THEN raw ELSE resp.body
BodyNormalized ==
    \/ MonitorNormalized
    \/ MainNormalized /\ resp # NoResp /\ resp.body.json

\* C14: the normalizer accepts only a non-empty sequence whose first element
\* is an object, or a bare object; every other shape (empty sequence, scalar,
\* null, sequence whose first element is a number, a string or a sequence)
\* fails with a shape error, not with a schema error or an error of another kind.
C14_OnlyRecordShapesAccepted ==
    BodyNormalized =>
       IF IsRecordBody(NormalizedBody)
       THEN ~ShapeError(exc)
       ELSE ShapeError(exc) /\ pc \in {"except", "done"}

\* C14 as far as it holds of monitor.py's normalize_stats: the empty list, a
\* scalar and null fail with the shape error, an object and a list starting
\* with an object do not.
C14_MonitorScalarShapes ==
    (MonitorNormalized /\ raw.shape \notin {"list_number", "list_string", "list_list"})
       => IF IsRecordBody(raw) THEN ~ShapeError(exc)
          ELSE ShapeError(exc) /\ pc = "except"

\* a is the date b or an earlier one (year, month, day compared in turn).
DateLE(a, b) ==
    \/ a.y < b.y
    \/ a.y = b.y /\ a.m < b.m
    \/ a.y = b.y /\ a.m = b.m /\ a.d <= b.d

\* The calendar the reported dates and the clock lie in.
CalendarYears == 2023 .. 2024
Calendar ==
    { dt \in [y : CalendarYears, m : 1 .. 12, d : 1 .. 31] : dt.d <= DaysInMonth(dt.y, dt.m) }

\* The number of calendar days from the date a up to, not including, the date b.
DaysFromTo(a, b) == Cardinality({ dt \in Calendar : DateLE(a, dt) /\ dt # b /\ DateLE(dt, b) })

\* The step that computes days_missed has just acted.
JustComputed == pc \in {"log", "r_generate"}

\* The two dates the run computed days_missed from.
LastActive == iso_to_date(last_active_str)

\* C15: for all calendar dates lastActive and today, daysMissed is
\* today - lastActive in days when lastActive <= today, and 0 when lastActive
\* is after today; it is never negative.
C15_DaysMissedClamped ==
    JustComputed =>
       /\ days_missed >= 0
       /\ days_missed = (IF DateLE(LastActive, today)
                         THEN DaysFromTo(LastActive, today) ELSE 0)

\* C15's clamped case happens: a streak whose end lies after today.
C15_Witness == JustComputed /\ ~DateLE(LastActive, today) /\ days_missed = 0

\* C15's other case happens: a streak that ended most of a year ago.
C15_LongGap == JustComputed /\ DateLE(LastActive, today) /\ days_missed > 300

\* The message is a local one: a template of pick_meme or the text of
\* _fallback_message.
LocalMessage == MessageGenerated /\ content.src \in {"meme", "fallback"}

\* C16: the category of the fallback message is fully determined by
\* daysMissed: a "missed" template exactly when daysMissed > 0 and an "active"
\* one otherwise, whichever template the random source picks.
C16_CategoryFromDaysMissed ==
    LocalMessage =>
       /\ content.cat = "missed" <=> days_missed > 0
       /\ content.cat = "active" <=> days_missed = 0
       /\ content.src = "meme" => content.tmpl \in Templates(content.cat)

\* C16's cases happen: the last "active" template picked at daysMissed = 0.
C16_Witness ==
    /\ LocalMessage /\ content.src = "meme"
    /\ days_missed = 0 /\ content.cat = "active" /\ content.tmpl = NumActiveTemplates

\* C16's other cases: a "missed" template other than the first, and the
\* fallback text of main.py for a missed day.
C16_MissedTemplate ==
    LocalMessage /\ content.src = "meme" /\ days_missed > 0 /\ content.tmpl = NumMissedTemplates
C16_FallbackMissed ==
    LocalMessage /\ content.src = "fallback" /\ days_missed > 0 /\ content.cat = "missed"

\* The failure the run ended with before escalation: the missing primary
\* webhook, or the error of a pipeline step.
ConfigFailure == prog = "monitor" /\ ~env.webhook

\* C17: escalation is best-effort and cannot change the outcome of the run:
\* with the secondary webhook unconfigured, its POST answered, or its POST
\* failing with any error, escalate never raises, and the exit code is the one
\* the original failure determines: 1 for a pipeline failure, 2 for the
\* missing configuration.
C17_EscalationBestEffort ==
    (Done /\ EscalationInvoked) =>
       /\ exc # Uncaught /\ exc # NoExc
       /\ exitCode = (IF ConfigFailure THEN 2 ELSE 1)
       /\ ConfigFailure <=> exc.type = "ConfigError"
       /\ secondaryCalls = 1 /\ Len(secondaryPosts) = (IF env.secondary THEN 1 ELSE 0)

\* C17's hardest case happens: the secondary POST fails with a network error
\* in a run that lacks the primary webhook, and the run still exits with 2.
C17_Witness ==
    /\ Done /\ ConfigFailure /\ env.secondary
    /\ secondaryPosts = <<NetError>> /\ exitCode = 2

\* C17's other cases: a pipeline failure escalated to a secondary webhook
\* that answers 404, and one with no secondary webhook configured.
C17_PipelineFailure404 ==
    /\ Done /\ PipelineFailed /\ EscalationInvoked
    /\ secondaryPosts = <<Response(404, NotJson)>> /\ exitCode = 1
C17_Unconfigured ==
    Done /\ PipelineFailed /\ EscalationInvoked /\ ~env.secondary /\ exitCode = 1

\* The attempt ceiling of the retry loops of the program run.
Ceiling == IF prog = "monitor" THEN FetchMaxAttempts ELSE max_retries

\* An attempt of the fetch loop that was answered with a 2xx status and a
\* body that is no JSON.
InvalidJsonAttempt(t) == ~t.net /\ Is2xx(t.status) /\ t.shape = "none"
InFetchLoop == pc \in {"fetch", "r_fetch"}

\* C18: a body of the stats source that is no JSON is a transient failure like
\* a non-2xx status or a network error: it triggers a retry while attempts
\* remain, and is fatal only after the attempts are exhausted.
C18_InvalidJsonRetried ==
    LET h == loops.fetch
    IN /\ \A i \in 1 .. Len(h) :
            (InvalidJsonAttempt(h[i]) /\ i < Ceiling) => (Len(h) > i \/ InFetchLoop)
       /\ (exc # NoExc /\ exc.kind = "invalid_json") => (Len(h) = Ceiling /\ AllFailed(h))

\* C18 as it holds of monitor.py's fetch_with_retry alone.
C18_MonitorInvalidJsonRetried == prog = "monitor" => C18_InvalidJsonRetried

\* In monitor.py a first answer that is no JSON is followed by a second
\* attempt whose valid answer the run goes on with.
C18_MonitorRetryHappens ==
    /\ prog = "monitor" /\ Len(loops.fetch) = 2
    /\ InvalidJsonAttempt(loops.fetch[1]) /\ loops.fetch[2].ok /\ exitCode = 0

\* The attempt ceiling of the retry loop at the site s.
SiteCeiling(s) ==
    IF prog = "main" THEN max_retries
    ELSE IF s = "post" THEN PostMaxAttempts ELSE FetchMaxAttempts

\* The failed attempts of a loop's record that were not the last one allowed.
FailedBeforeLast(s) == { i \in 1 .. Len(loops[s]) : ~loops[s][i].ok /\ i < SiteCeiling(s) }

\* C19: a backoff wait happens only between two attempts: after a failed
\* attempt the loop waits exactly when an attempt remains, no wait follows the
\* final failed attempt, and an exhausted loop has waited maxAttempts - 1 times.
C19_WaitOnlyBetweenAttempts ==
    \A s \in Sites :
        /\ sleeps[s] = Cardinality(FailedBeforeLast(s))
        /\ ExhaustionReported(s) => sleeps[s] = SiteCeiling(s) - 1

\* C19 as it holds of monitor.py's fetch_with_retry and post_discord_with_retry.
C19_MonitorWaitOnlyBetween == prog = "monitor" => C19_WaitOnlyBetweenAttempts

\* In monitor.py an exhausted loop has waited once.
C19_MonitorExhaustedWaitedOnce ==
    prog = "monitor" /\ ExhaustionReported("post") /\ sleeps.post = 1 /\ Len(loops.post) = 2

\* The outbound requests of the run so far, and the ceiling the attempt limits
\* of the program put on them.
RequestsSent ==
    Len(loops.fetch) + Len(loops.gen) + Len(loops.post) + Len(secondaryPosts)
RequestCeiling ==
    IF prog = "monitor" THEN FetchMaxAttempts + PostMaxAttempts + 1
    ELSE 3 * max_retries
RequestsBounded ==
    /\ \A s \in Sites : Len(loops[s]) <= SiteCeiling(s)
    /\ RequestsSent <= RequestCeiling

\* C20: every run reaches a terminal state after finitely many steps,
\* whatever the remote services answer: no retry loop repeats indefinitely and
\* the outbound requests of a run are bounded by the fixed attempt ceilings.
C20_Terminates == <>Done /\ []RequestsBounded

\* The position of a step in its program, and how far a run is from its end:
\* the steps left, each weighing more than a loop's attempts, plus the
\* attempts left in the loop, plus the ticks the clock may still make.
PcRank ==
    CASE pc = "start" -> 0
      [] pc \in {"config_fatal", "fetch", "r_fetch"} -> 1
      [] pc \in {"normalize", "r_fetch_ret"} -> 2
      [] pc \in {"compute", "r_extract"} -> 3
      [] pc \in {"log", "r_compute"} -> 4
      [] pc \in {"decide", "r_generate"} -> 5
      [] pc \in {"post", "r_gen"} -> 6
      [] pc \in {"except", "r_gen_ret"} -> 7
      [] pc = "r_dispatch" -> 8
      [] pc = "r_post" -> 9
      [] pc = "r_post_ret" -> 10
      [] pc = "done" -> 11
StepWeight == max_retries + 1
StepsLeft == StepWeight * (11 - PcRank) + (Ceiling - attempts) + (MaxTicks - ticks)

\* C20 without fairness: every step brings the run nearer to its end by the
\* measure StepsLeft, which is never negative, and a run that has not ended
\* can take a step.
C20_StepsBounded ==
    /\ [][StepsLeft' < StepsLeft]_vars
    /\ [](StepsLeft >= 0 /\ RequestsBounded)
    /\ [](Done \/ ENABLED ProgramStep)

\* C20's longest run happens: main.py used all three attempts of each of its
\* three loops and ended.
C20_Witness ==
    /\ prog = "main" /\ Done
    /\ Len(loops.fetch) = max_retries /\ Len(loops.gen) = max_retries
    /\ Len(loops.post) = max_retries /\ RequestsSent = RequestCeiling

\* The run has logged or reported a value of today: monitor.py after its log
\* line, which reads the clock again.
TodayLogged == logged_today # UnsetDate

\* C21: the current UTC date is captured once per run: every use of today in
\* a run (the daysMissed computation, the logged or reported today, the
\* generated message) sees the same date, even if the wall clock crosses
\* midnight UTC during the run.
C21_TodayCapturedOnce ==
    /\ TodayLogged => logged_today = today
    /\ (prog = "main" /\ DaysMissedComputed)
          => days_missed = Max(0, DeltaDays(today, LastActive))

\* C21 as it holds of main.py's run(): today_str is read once in the extract
\* step, and the computation uses it whatever the clock says by then.
C21_MainCapturedOnce ==
    prog = "main" =>
       /\ ~TodayLogged
       /\ DaysMissedComputed => days_missed = Max(0, DeltaDays(today, LastActive))

\* In main.py the clock crosses midnight between the capture and the
\* computation, and the computation still uses the captured date.
C21_MainMidnightCrossed ==
    /\ prog = "main" /\ pc = "r_generate" /\ clock # today
    /\ days_missed = DeltaDays(today, LastActive) /\ days_missed > 0

\* The POSTs to the primary webhook that were answered with a 2xx status.
Delivered == { i \in 1 .. Len(loops.post) : ~loops.post[i].net /\ Is2xx(loops.post[i].status) }

\* C22: a run delivers at most one notification to the primary webhook: once
\* a POST to it is classified 2xx no further POST to it is issued in that run,
\* and the POSTs to it in a run never exceed the dispatch attempt ceiling.
C22_AtMostOneDelivery ==
    /\ Cardinality(Delivered) <= 1
    /\ \A i \in Delivered : i = Len(loops.post)
    /\ Len(loops.post) <= SiteCeiling("post")
    /\ Delivered # {} => pc \notin {"post", "r_post"}

\* C22's case happens: the POST is delivered on the last attempt the ceiling
\* allows, after failed ones, and the run ends as a success.
C22_Witness ==
    /\ Done /\ exitCode = 0
    /\ Len(loops.post) = SiteCeiling("post") /\ Delivered = {Len(loops.post)}
    /\ ~loops.post[1].ok

====
